---- MODULE Spec2Model ----
(***************************************************************************)
(* Model of scripts/simple_boot.py: create_simple_bootable() and the       *)
(* __main__ block.  The script zero-fills rustos.img with dd, writes       *)
(* bootloader.asm, assembles it with nasm into bootloader.bin and copies   *)
(* one 512-byte block of that file over the start of rustos.img.           *)
(*                                                                         *)
(* Files are byte sequences.  A file is kept as [exists, data, size]: the  *)
(* bytes at offsets 0 .. Len(data)-1 are data, the bytes at offsets        *)
(* Len(data) .. size-1 are zero, and data never ends in a zero byte, so    *)
(* two files are equal exactly when their byte contents are equal.         *)
(***************************************************************************)
EXTENDS Integers, Sequences, FiniteSets, TLC

VARIABLES
    pc,         \* position of the script
    payload,    \* machine code the source assembles to ahead of the times line
    img,        \* rustos.img
    asmFile,    \* bootloader.asm
    binFile,    \* bootloader.bin
    ret,        \* return value of create_simple_bootable: "none", TRUE, FALSE
    out,        \* lines printed by the script, in order
    exitCode,   \* exit status of the process, -1 while it runs
    steps,      \* external steps attempted in this run, in order
    zeroOk,     \* outcome of the dd zero-fill of this run
    nasmOk,     \* outcome of the nasm step of this run
    copyOk,     \* outcome of the dd sector copy of this run
    cause,      \* what went wrong in this run, "none" if nothing did
    imgAtStart, \* rustos.img when this run started
    imgAtCopy,  \* rustos.img just before the sector copy of this run
    runs,       \* number of runs of the script started so far
    prev        \* how the run before this one ended: its cause, ret and out

vars == <<pc, payload, img, asmFile, binFile, ret, out, exitCode, steps,
          zeroOk, nasmOk, copyOk, cause, imgAtStart, imgAtCopy, runs, prev>>

----------------------------------------------------------------------------
\* Constants of the script

\* times 510-($-$$) db 0
PadTo == 510

\* dw 0xaa55
SigWord == 43605

\* dd ... bs=512 count=1 conv=notrunc
SectorSize == 512

CopyCount == 1

\* dd if=/dev/zero ... bs=1M count=10
ZeroBlock == 1048576

ZeroCount == 10

\* Bounds of the model

\* payloads of up to PadTo + MaxOver bytes are tried
MaxOver == 2

\* images found at the destination carry up to MaxTail bytes after the first sector
MaxTail == 2

\* a zero-fill that runs out of space does so after at most MaxPartial blocks
MaxPartial == 1

\* the script is run up to MaxRuns times in the same directory
MaxRuns == 2

----------------------------------------------------------------------------
\* Files

Max(a, b) == IF a >= b THEN a ELSE b

Min(a, b) == IF a <= b THEN a ELSE b

NoFile == [exists |-> FALSE, data |-> <<>>, size |-> 0]

\* index of the last non-zero byte of s, 0 if there is none
LastNonZero(s) ==
    LET nz == {i \in 1..Len(s) : s[i] # 0}
    IN  IF nz = {} THEN 0 ELSE CHOOSE i \in nz : \A j \in nz : j <= i

\* the file holding exactly the bytes of s
FileOf(s) ==
    [exists |-> TRUE, data |-> SubSeq(s, 1, LastNonZero(s)), size |-> Len(s)]

\* the byte of file f at offset off (0-based), for off < f.size
ByteAt(f, off) == IF off < Len(f.data) THEN f.data[off + 1] ELSE 0

\* the first n bytes of file f (fewer if the file is shorter)
ReadBytes(f, n) == [i \in 1..Min(n, f.size) |-> ByteAt(f, i - 1)]

----------------------------------------------------------------------------
\* dd

\* dd writing one block more than asked
DDZeroOneMore(bs, count) ==
    [exists |-> TRUE, data |-> <<>>, size |-> bs * (count + 1)]

\* dd if=/dev/zero of=F bs=bs count=count: F is truncated and count blocks of
\* bs zero bytes are written to it
DDZero(bs, count) == [exists |-> TRUE, data |-> <<>>, size |-> bs * count]

\* dd without conv=notrunc: outf is truncated to what is written
DDTrunc(inf, outf, bs, count) ==
    LET blk == ReadBytes(inf, bs * count)
    IN  [exists |-> TRUE,
         data   |-> SubSeq(blk, 1, LastNonZero(blk)),
         size   |-> Min(bs * count, inf.size)]

\* dd with oflag=append: the block is written at the end of outf
DDAppend(inf, outf, bs, count) ==
    LET blk == ReadBytes(inf, bs * count)
        m   == Min(bs * count, inf.size)
        raw == [i \in 1..(outf.size + m) |->
                    IF i <= outf.size THEN ByteAt(outf, i - 1)
                    ELSE blk[i - outf.size]]
    IN  [exists |-> TRUE,
         data   |-> SubSeq(raw, 1, LastNonZero(raw)),
         size   |-> outf.size + m]

\* dd if=inf of=outf bs=bs count=count conv=notrunc: the first bs*count bytes
\* of inf are written at offset 0 of outf, which is created when missing and
\* is not truncated
DDNoTrunc(inf, outf, bs, count) ==
    LET blk == ReadBytes(inf, bs * count)
        m   == Min(bs * count, inf.size)
        raw == [i \in 1..Max(m, Len(outf.data)) |->
                    IF i <= m THEN blk[i] ELSE outf.data[i]]
    IN  [exists |-> TRUE,
         data   |-> SubSeq(raw, 1, LastNonZero(raw)),
         size   |-> Max(outf.size, m)]

----------------------------------------------------------------------------
\* nasm -f bin

\* machine code of lines 20-39 of the source at org 0x7c00: the instructions
\* of start, print_string and done (20 bytes), then msg (34 characters, 13, 10, 0)
ScriptCode ==
    << 190, 20, 124, 232, 2, 0, 250, 244, 172, 8, 192, 116, 6, 180, 14, 205,
       16, 235, 245, 195,
       82, 117, 115, 116, 79, 83, 32, 66, 111, 111, 116, 108, 111, 97, 100,
       101, 114, 32, 45, 32, 75, 101, 114, 110, 101, 108, 32, 108, 111, 97,
       100, 101, 100, 33, 13, 10, 0 >>

\* the source without its times line
BootloaderAsmNoPad(code) ==
    << [op |-> "code", bytes |-> code, arg |-> 0],
       [op |-> "dw",   bytes |-> <<>>, arg |-> SigWord] >>

\* the source padding to the end of the sector: times 512-($-$$) db 0
BootloaderAsmPad512(code) ==
    << [op |-> "code",     bytes |-> code,  arg |-> 0],
       [op |-> "times_db", bytes |-> <<0>>, arg |-> SectorSize],
       [op |-> "dw",       bytes |-> <<>>,  arg |-> SigWord] >>

\* bootloader_asm as a list of statements: the code and data ahead of the
\* boot signature, then "times 510-($-$$) db 0", then "dw 0xaa55"
BootloaderAsm(code) ==
    << [op |-> "code",     bytes |-> code,  arg |-> 0],
       [op |-> "times_db", bytes |-> <<0>>, arg |-> PadTo],
       [op |-> "dw",       bytes |-> <<>>,  arg |-> SigWord] >>

\* a word laid down high byte first
Word16BE(w) == << (w \div 256) % 256, w % 256 >>

\* dw lays a 16-bit word down low byte first
Word16LE(w) == << w % 256, (w \div 256) % 256 >>

\* times n: s repeated n times
Times(n, s) == [i \in 1..(n * Len(s)) |-> s[((i - 1) % Len(s)) + 1]]

\* one pass over the statements from statement i on, buf being the output so
\* far; $-$$ is Len(buf), and a negative times count is an error
RECURSIVE AsmFrom(_, _, _)
AsmFrom(src, i, buf) ==
    IF i > Len(src) THEN [ok |-> TRUE, bin |-> buf]
    ELSE LET st == src[i] IN
         CASE st.op = "code" -> AsmFrom(src, i + 1, buf \o st.bytes)
           [] st.op = "times_db" ->
                LET n == st.arg - Len(buf) IN
                IF n < 0 THEN [ok |-> FALSE, bin |-> <<>>]
                ELSE AsmFrom(src, i + 1, buf \o Times(n, st.bytes))
           [] st.op = "dw" -> AsmFrom(src, i + 1, buf \o Word16LE(st.arg))

Nasm(src) == AsmFrom(src, 1, <<>>)

----------------------------------------------------------------------------
\* Inputs

\* n non-zero bytes that differ from one offset to the next
Fill(n) == [i \in 1..n |-> ((i * 7) % 255) + 1]

Payloads ==
    {ScriptCode, <<>>, <<250, 244>>}
        \cup {Fill(n) : n \in (PadTo - 1)..(PadTo + MaxOver)}

\* a file shorter than a sector
ShortImage == FileOf(<<1, 2, 3>>)

\* an older image: a full sector and t more bytes, all non-zero, then 4 zero bytes
OldImage(t) ==
    [exists |-> TRUE,
     data   |-> [i \in 1..(SectorSize + t) |-> (i % 251) + 1],
     size   |-> SectorSize + t + 4]

\* what may be at rustos.img before the script runs
PriorImages == {NoFile, ShortImage} \cup {OldImage(t) : t \in 0..MaxTail}

NoAsm == [exists |-> FALSE, text |-> <<>>]

NoRun == [cause |-> "none", ret |-> "none", out |-> <<>>, exitCode |-> -1]

----------------------------------------------------------------------------
\* Messages printed

MsgCreating == "Creating RustOS Bootable Image..."

MsgCreated == "Bootable image created: rustos.img"

MsgNasmUnavailable == "NASM not available, trying alternative approach..."

MsgReady == "RustOS bootable image ready!"

MsgTestWith == "Test with: qemu-system-x86_64 -drive format=raw,file=rustos.img -display gtk"

MsgInstallNasm == "Please install NASM assembler for bootloader creation"

----------------------------------------------------------------------------
\* The script

Init ==
    /\ pc = "start"
    /\ payload \in Payloads
    /\ img \in PriorImages
    /\ asmFile = NoAsm
    /\ binFile = NoFile
    /\ ret = "none"
    /\ out = <<>>
    /\ exitCode = -1
    /\ steps = <<>>
    /\ zeroOk = "none"
    /\ nasmOk = "none"
    /\ copyOk = "none"
    /\ cause = "none"
    /\ imgAtStart = img
    /\ imgAtCopy = NoFile
    /\ runs = 1
    /\ prev = NoRun

\* lines 10-13: print, then os.system("dd if=/dev/zero of=rustos.img bs=1M
\* count=10"); the status os.system returns is dropped
ZeroFill ==
    /\ pc = "start"
    /\ out' = Append(out, MsgCreating)
    /\ steps' = Append(steps, "zero_fill")
    /\ \/ /\ zeroOk' = "ok"
          /\ img' = DDZero(ZeroBlock, ZeroCount)
       \/ \* dd could not be run or could not open rustos.img
          /\ zeroOk' = "fail"
          /\ img' = img
       \/ \* dd ran out of space after k blocks
          \E k \in 0..Min(MaxPartial, ZeroCount - 1) :
             /\ zeroOk' = "fail"
             /\ img' = DDZero(ZeroBlock, k)
    /\ pc' = "write_asm"
    /\ UNCHANGED <<payload, asmFile, binFile, ret, exitCode, nasmOk, copyOk,
                   cause, imgAtStart, imgAtCopy, runs, prev>>

\* lines 47-48: with open('bootloader.asm', 'w') as f: f.write(bootloader_asm);
\* outside the try, so an OSError ends the process with a traceback, status 1
WriteAsm ==
    /\ pc = "write_asm"
    /\ steps' = Append(steps, "write_asm")
    /\ \/ /\ asmFile' = [exists |-> TRUE, text |-> BootloaderAsm(payload)]
          /\ pc' = "assemble"
          /\ UNCHANGED <<cause, exitCode>>
       \/ /\ asmFile' = asmFile
          /\ cause' = "asm_write"
          /\ exitCode' = 1
          /\ pc' = "crashed"
    /\ UNCHANGED <<payload, img, binFile, ret, out, zeroOk, nasmOk, copyOk,
                   imgAtStart, imgAtCopy, runs, prev>>

\* line 52: subprocess.run(['nasm', '-f', 'bin', 'bootloader.asm', '-o',
\* 'bootloader.bin'], check=True)
Assemble ==
    /\ pc = "assemble"
    /\ steps' = Append(steps, "assemble")
    /\ \/ \* nasm is not installed: FileNotFoundError
          /\ nasmOk' = "fail"
          /\ cause' = "nasm_missing"
          /\ binFile' = binFile
          /\ pc' = "except"
       \/ LET r == Nasm(asmFile.text) IN
          IF r.ok
          THEN /\ nasmOk' = "ok"
               /\ cause' = cause
               /\ binFile' = FileOf(r.bin)
               /\ pc' = "copy"
          ELSE \* nasm exits non-zero and removes its output: CalledProcessError
               /\ nasmOk' = "fail"
               /\ cause' = "asm_error"
               /\ binFile' = NoFile
               /\ pc' = "except"
    /\ UNCHANGED <<payload, img, asmFile, ret, out, exitCode, zeroOk, copyOk,
                   imgAtStart, imgAtCopy, runs, prev>>

\* line 53 without check=True: a failing dd goes unnoticed
CopySectorUnchecked ==
    /\ pc = "copy"
    /\ steps' = Append(steps, "copy")
    /\ imgAtCopy' = img
    /\ \/ /\ img' = DDNoTrunc(binFile, img, SectorSize, CopyCount)
          /\ copyOk' = "ok"
          /\ cause' = cause
       \/ /\ img' = img
          /\ copyOk' = "fail"
          /\ cause' = "copy_failed"
    /\ pc' = "success"
    /\ UNCHANGED <<payload, asmFile, binFile, ret, out, exitCode, zeroOk,
                   nasmOk, imgAtStart, runs, prev>>

\* line 53: subprocess.run(['dd', 'if=bootloader.bin', 'of=rustos.img',
\* 'bs=512', 'count=1', 'conv=notrunc'], check=True)
CopySector ==
    /\ pc = "copy"
    /\ steps' = Append(steps, "copy")
    /\ imgAtCopy' = img
    /\ \/ /\ img' = DDNoTrunc(binFile, img, SectorSize, CopyCount)
          /\ copyOk' = "ok"
          /\ cause' = cause
          /\ pc' = "success"
       \/ \* dd fails: CalledProcessError (or FileNotFoundError)
          /\ img' = img
          /\ copyOk' = "fail"
          /\ cause' = "copy_failed"
          /\ pc' = "except"
    /\ UNCHANGED <<payload, asmFile, binFile, ret, out, exitCode, zeroOk,
                   nasmOk, imgAtStart, runs, prev>>

\* lines 54-55
ReturnTrue ==
    /\ pc = "success"
    /\ out' = Append(out, MsgCreated)
    /\ ret' = "True"
    /\ pc' = "main"
    /\ UNCHANGED <<payload, img, asmFile, binFile, exitCode, steps, zeroOk,
                   nasmOk, copyOk, cause, imgAtStart, imgAtCopy, runs, prev>>

\* lines 56-58: the bare except clause
Except ==
    /\ pc = "except"
    /\ out' = Append(out, MsgNasmUnavailable)
    /\ ret' = "False"
    /\ pc' = "main"
    /\ UNCHANGED <<payload, img, asmFile, binFile, exitCode, steps, zeroOk,
                   nasmOk, copyOk, cause, imgAtStart, imgAtCopy, runs, prev>>

\* lines 60-65: both branches only print, and the process then ends normally
Main ==
    /\ pc = "main"
    /\ out' = IF ret = "True"
              THEN out \o <<MsgReady, MsgTestWith>>
              ELSE Append(out, MsgInstallNasm)
    /\ exitCode' = 0
    /\ pc' = "exited"
    /\ UNCHANGED <<payload, img, asmFile, binFile, ret, steps, zeroOk, nasmOk,
                   copyOk, cause, imgAtStart, imgAtCopy, runs, prev>>

\* the script is started again in the same directory: the files stay
Rerun ==
    /\ pc \in {"exited", "crashed"}
    /\ runs < MaxRuns
    /\ runs' = runs + 1
    /\ pc' = "start"
    /\ ret' = "none"
    /\ out' = <<>>
    /\ exitCode' = -1
    /\ steps' = <<>>
    /\ zeroOk' = "none"
    /\ nasmOk' = "none"
    /\ copyOk' = "none"
    /\ cause' = "none"
    /\ imgAtStart' = img
    /\ imgAtCopy' = NoFile
    /\ prev' = [cause |-> cause, ret |-> ret, out |-> out, exitCode |-> exitCode]
    /\ UNCHANGED <<payload, img, asmFile, binFile>>

Next ==
    \/ ZeroFill
    \/ WriteAsm
    \/ Assemble
    \/ CopySector
    \/ ReturnTrue
    \/ Except
    \/ Main
    \/ Rerun

Spec == Init /\ [][Next]_vars

----------------------------------------------------------------------------
\* Properties

Range(s) == {s[i] : i \in 1..Len(s)}

Finished == pc \in {"exited", "crashed"}

\* C1: for every payload of at most 510 bytes the assembler accepts the
\* source, and the sector it builds (bootloader.bin too, once nasm has run) is
\* exactly 512 bytes long with 0x55 at offset 510 and 0xAA at offset 511.
C1_SectorLengthAndSignature ==
    Len(payload) <= 510 =>
        LET r == Nasm(BootloaderAsm(payload)) IN
        /\ r.ok
        /\ Len(r.bin) = 512
        /\ r.bin[511] = 85
        /\ r.bin[512] = 170
        /\ nasmOk = "ok" =>
              /\ binFile.exists
              /\ binFile.size = 512
              /\ ByteAt(binFile, 510) = 85
              /\ ByteAt(binFile, 511) = 170

C1_Witness ==
    /\ Len(payload) = 510
    /\ nasmOk = "ok"
    /\ binFile.size = 512

\* C2: for every payload p of at most 510 bytes, the sector holds p at offsets
\* [0, len(p)), zero bytes at offsets [len(p), 510) and then 0x55 0xAA; the
\* empty payload gives 510 zero bytes and the signature.
C2_SectorContents ==
    (Len(payload) <= 510 /\ nasmOk = "ok") =>
        /\ binFile.size = 512
        /\ \A i \in 0..(Len(payload) - 1) : ByteAt(binFile, i) = payload[i + 1]
        /\ \A i \in Len(payload)..509 : ByteAt(binFile, i) = 0
        /\ ByteAt(binFile, 510) = 85
        /\ ByteAt(binFile, 511) = 170
        /\ payload = <<>> =>
              ReadBytes(binFile, 512)
                  = [i \in 1..512 |-> IF i <= 510 THEN 0 ELSE IF i = 511 THEN 85 ELSE 170]

C2_Witness ==
    /\ payload = <<250, 244>>
    /\ nasmOk = "ok"
    /\ ByteAt(binFile, 0) = 250
    /\ ByteAt(binFile, 1) = 244
    /\ ByteAt(binFile, 2) = 0

\* C3: for every payload of more than 510 bytes the times count is negative,
\* the assembler fails, there is no sector, and none is copied into the image.
C3_PayloadTooLarge ==
    Len(payload) > 510 =>
        /\ ~ Nasm(BootloaderAsm(payload)).ok
        /\ nasmOk # "ok"
        /\ ~ binFile.exists
        /\ "copy" \notin Range(steps)
        /\ copyOk = "none"
        /\ ret # "True"
        /\ "assemble" \in Range(steps) => cause \in {"asm_error", "nasm_missing"}

C3_Witness ==
    /\ Len(payload) = 511
    /\ cause = "asm_error"
    /\ ret = "False"
    /\ pc = "exited"

\* C4: when a run fails (no assembler, an assembly error, a failed sector
\* copy), rustos.img is what it was when the run started (no new file, no
\* changed file).
C4_NoImageLeftOnFailure ==
    ret = "False" => img = imgAtStart

\* C5: a sector copy into an image of at least 512 bytes sets bytes [0, 512)
\* to the sector's and leaves the length of the image and every byte at
\* offset 512 or higher as they were.  (Past the data of both files every byte
\* is zero in both.)
C5_CopyFrame ==
    (copyOk = "ok" /\ imgAtCopy.size >= 512) =>
        /\ \A i \in 0..511 : ByteAt(img, i) = ByteAt(binFile, i)
        /\ img.size = imgAtCopy.size
        /\ \A i \in 512..Max(Len(img.data), Len(imgAtCopy.data)) :
              ByteAt(img, i) = ByteAt(imgAtCopy, i)

C5_Witness ==
    /\ copyOk = "ok"
    /\ imgAtCopy.size > 512
    /\ Len(imgAtCopy.data) > 512
    /\ ByteAt(img, 512) # 0
    /\ ReadBytes(imgAtCopy, 512) # ReadBytes(img, 512)

\* C6: after a run whose zero-fill and sector copy both succeeded, the image
\* is 10,485,760 bytes long, its first 512 bytes are the built sector and all
\* the bytes after them are zero.
C6_SuccessfulImage ==
    (ret = "True" /\ zeroOk = "ok") =>
        /\ img.exists
        /\ img.size = 10485760
        /\ binFile.size = 512
        /\ ReadBytes(img, 512) = ReadBytes(binFile, 512)
        /\ Len(img.data) <= 512
        /\ \A i \in 512..(Len(img.data) - 1) : ByteAt(img, i) = 0

C6_Witness ==
    /\ ret = "True"
    /\ zeroOk = "ok"
    /\ payload = <<250, 244>>
    /\ img.size = 10485760
    /\ ByteAt(img, 0) = 250
    /\ ByteAt(img, 511) = 170

\* C7: the process ends with status 0 exactly when the image was built.
C7_ExitCode ==
    Finished => (exitCode = 0 <=> ret = "True")

\* C8: a failed sector copy is reported as its own kind: what the caller gets
\* (return value and printed lines) differs from what a run gets whose failure
\* had another cause.
C8_FailuresDistinguishable ==
    (/\ pc = "exited"
     /\ cause = "copy_failed"
     /\ prev.cause \in {"nasm_missing", "asm_error"}) =>
        <<ret, out>> # <<prev.ret, prev.out>>

\* C9: copying the same sector again into an image that holds it (of at least
\* 512 bytes before the first copy) changes nothing, and for every image of at
\* least 512 bytes that may be found, two copies give what one copy gives.
C9_CopyIdempotent ==
    /\ (copyOk = "ok" /\ imgAtCopy.size >= 512) =>
          DDNoTrunc(binFile, img, SectorSize, CopyCount) = img
    /\ (pc = "copy") =>
          \A f \in {g \in PriorImages : g.size >= 512} :
             LET once == DDNoTrunc(binFile, f, SectorSize, CopyCount)
             IN  DDNoTrunc(binFile, once, SectorSize, CopyCount) = once

C9_Witness ==
    /\ runs = 2
    /\ copyOk = "ok"
    /\ zeroOk = "fail"
    /\ imgAtCopy.size > 512
    /\ imgAtStart = imgAtCopy
    /\ ReadBytes(imgAtCopy, 512) = ReadBytes(binFile, 512)
    /\ img = imgAtCopy

StepOrder == <<"zero_fill", "write_asm", "assemble", "copy">>

\* C10: the steps of a run are attempted in the order zero-fill, write source,
\* assemble, copy; the copy is attempted only after nasm succeeded; True is
\* returned, and the success line printed, exactly when nasm and the copy both
\* succeeded, whatever the zero-fill did.
C10_StepOrder ==
    /\ Len(steps) <= Len(StepOrder)
    /\ steps = SubSeq(StepOrder, 1, Len(steps))
    /\ "copy" \in Range(steps) => nasmOk = "ok"
    /\ copyOk # "none" => nasmOk = "ok"
    /\ ret = "True" => (nasmOk = "ok" /\ copyOk = "ok")
    /\ (pc \in {"main", "exited"} /\ nasmOk = "ok" /\ copyOk = "ok") => ret = "True"
    /\ MsgCreated \in Range(out) <=> ret = "True"

C10_Witness ==
    /\ ret = "True"
    /\ zeroOk = "fail"
    /\ steps = StepOrder
    /\ pc = "exited"

====
